---- MODULE Spec2Model ----
(***************************************************************************)
(* Model of app.py: the eight preprocessing transforms, full_pipeline and  *)
(* the Streamlit script that appends the form's profile to the training    *)
(* data, runs the pipeline, fetches the loading animation and predicts.    *)
(*                                                                         *)
(* A DataFrame is [columns, rows]: columns is the sequence of column names *)
(* and rows the sequence of [index, cells], index being the pandas row     *)
(* label and cells a function from column name to value.  Numeric cells    *)
(* are integers; a missing numeric cell is NaN, a missing object cell is   *)
(* "nan".  MinMaxScaler's output cells are exact fractions <<num, den>>,   *)
(* with <<0, 0>> for a missing value.  np.cbrt is computed in fixed point  *)
(* with one decimal digit.                                                 *)
(***************************************************************************)
EXTENDS Integers, Sequences, FiniteSets, TLC

VARIABLES
    train_copy,   \* the historical DataFrame (train_copy)
    profile,      \* the widget values of the current script run
    df,           \* the DataFrame travelling through the transforms
    prev,         \* the DataFrame the last transform received
    last,         \* name of the last transform applied
    steps,        \* names of the pipeline steps applied so far, in order
    printed,      \* diagnostics printed so far
    pc,           \* position of the script / pipeline / transform harness
    prep,         \* profile_to_pred_prep
    cache,        \* st.cache_data entry of load_lottieurl
    lottie,       \* lottie_loading_an of the current run
    predict_bt,   \* value of st.button("Predict") in the current run
    fetch,        \* outcome of requests.get in the current run
    shown         \* what the current run has put on the page

vars == <<train_copy, profile, df, prev, last, steps, printed, pc, prep,
          cache, lottie, predict_bt, fetch, shown>>

(***************************************************************************)
(* Bounds of the model.                                                    *)
(***************************************************************************)
MaxRows == 3
MaxOutlierRows == 5
MaxTrain == 3

(***************************************************************************)
(* Generic helpers.                                                        *)
(***************************************************************************)
Range(s) == {s[i] : i \in 1..Len(s)}

RECURSIVE SeqsUpTo(_, _)
SeqsUpTo(S, n) ==
    IF n = 0 THEN {<<>>}
    ELSE LET shorter == SeqsUpTo(S, n - 1)
         IN shorter \cup {Append(s, x) : s \in {t \in shorter : Len(t) = n - 1}, x \in S}

RECURSIVE Insert(_, _)
Insert(v, s) ==
    IF s = <<>> THEN <<v>>
    ELSE IF v <= Head(s) THEN <<v>> \o s
    ELSE <<Head(s)>> \o Insert(v, Tail(s))

RECURSIVE SortInts(_)
SortInts(s) == IF s = <<>> THEN <<>> ELSE Insert(Head(s), SortInts(Tail(s)))

RECURSIVE Flatten(_)
Flatten(ss) == IF ss = <<>> THEN <<>> ELSE Head(ss) \o Flatten(Tail(ss))

(***************************************************************************)
(* Missing values and column types.                                        *)
(***************************************************************************)
NaN == -1000000

Sentinel == -999

Target == "Loan Sanction Amount (USD)"

\* The columns of datasets/train.csv, in the order of profile_to_predict.
TrainColumns ==
    << "Customer ID", "Name", "Gender", "Age", "Income (USD)", "Income Stability",
       "Profession", "Type of Employment", "Location", "Loan Amount Request (USD)",
       "Current Loan Expenses (USD)", "Expense Type 1", "Expense Type 2",
       "Dependents", "Credit Score", "No. of Defaults", "Has Active Credit Card",
       "Property ID", "Property Age", "Property Type", "Property Location",
       "Co-Applicant", "Property Price", "Loan Sanction Amount (USD)" >>

\* Columns holding strings (dtype object).
ObjectCols ==
    { "Customer ID", "Name", "Gender", "Income Stability", "Profession",
      "Type of Employment", "Location", "Expense Type 1", "Expense Type 2",
      "Has Active Credit Card", "Property Location" }

Missing(c) == IF c \in ObjectCols THEN "nan" ELSE NaN

isna(c, v) == v = Missing(c)

\* Python's ordering of the strings the model uses; a missing value sorts last.
CatOrder ==
    << "Active", "Businessman", "Commercial associate", "F", "High", "Inactive",
       "Low", "M", "N", "Pensioner", "Rural", "Semi-Urban", "State servant",
       "Student", "Unemployed", "Unpossessed", "Urban", "Working", "Y", "nan" >>

Pos(v) == CHOOSE i \in 1..Len(CatOrder) : CatOrder[i] = v

Less(c, a, b) == IF c \in ObjectCols THEN Pos(a) < Pos(b) ELSE a < b

(***************************************************************************)
(* DataFrame helpers.                                                      *)
(***************************************************************************)
HasColumns(d, fts) == Range(fts) \subseteq Range(d.columns)

\* df[c] with the missing cells left out.
Present(d, c) ==
    LET col == [i \in 1..Len(d.rows) |-> d.rows[i].cells[c]]
    IN SelectSeq(col, LAMBDA v : ~isna(c, v))

\* What a transform hands back: the frame, whether it printed its diagnostic,
\* and whether an exception left it instead.
Returned(d) == [raised |-> FALSE, printed |-> FALSE, df |-> d]
NoOp(d) == [raised |-> FALSE, printed |-> TRUE, df |-> d]
Raised(d) == [raised |-> TRUE, printed |-> FALSE, df |-> d]

(***************************************************************************)
(* OutlierImputer                                                          *)
(***************************************************************************)
feat_with_outliers ==
    << "Income (USD)", "Loan Amount Request (USD)", "Current Loan Expenses (USD)",
       "Property Age", "Property Price" >>

\* Four times the k/4 quantile of the sorted, non-empty s (linear interpolation).
QuantileX4(s, k) ==
    LET pos4 == k * (Len(s) - 1)
        lo == (pos4 \div 4) + 1
        r == pos4 % 4
    IN IF r = 0 THEN 4 * s[lo] ELSE 4 * s[lo] + r * (s[lo + 1] - s[lo])

\* Eight times Q1 - 1.5 * IQR and Q3 + 1.5 * IQR of column ft.
LowerX8(s) == 2 * QuantileX4(s, 1) - 3 * (QuantileX4(s, 3) - QuantileX4(s, 1))
UpperX8(s) == 2 * QuantileX4(s, 3) + 3 * (QuantileX4(s, 3) - QuantileX4(s, 1))

\* (df[ft] < Q1 - 1.5 * IQR) | (df[ft] > Q3 + 1.5 * IQR) for one cell; a
\* comparison with a missing cell or a missing quantile is False.
OutOfBounds(s, ft, v) ==
    /\ ~isna(ft, v)
    /\ s # <<>>
    /\ \/ 8 * v < LowerX8(s)
       \/ 8 * v > UpperX8(s)

\* .all(axis=1) in place of .any(axis=1).
OutlierImputer_transform_all(d) ==
    IF HasColumns(d, feat_with_outliers)
    THEN LET sorted == [ft \in Range(feat_with_outliers) |-> SortInts(Present(d, ft))]
             out(r) == \A ft \in Range(feat_with_outliers) :
                           OutOfBounds(sorted[ft], ft, r.cells[ft])
         IN Returned([d EXCEPT !.rows = SelectSeq(d.rows, LAMBDA r : ~out(r))])
    ELSE NoOp(d)

OutlierImputer_transform(d) ==
    IF HasColumns(d, feat_with_outliers)
    THEN LET sorted == [ft \in Range(feat_with_outliers) |-> SortInts(Present(d, ft))]
             out(r) == \E ft \in Range(feat_with_outliers) :
                           OutOfBounds(sorted[ft], ft, r.cells[ft])
         IN Returned([d EXCEPT !.rows = SelectSeq(d.rows, LAMBDA r : ~out(r))])
    ELSE NoOp(d)

(***************************************************************************)
(* DropUncommonProfession                                                  *)
(***************************************************************************)
profession_list == << "Student", "Unemployed", "Businessman" >>

DropUncommonProfession_transform(d) ==
    IF "Profession" \in Range(d.columns)
    THEN Returned([d EXCEPT !.rows =
             SelectSeq(d.rows, LAMBDA r : r.cells["Profession"] \notin Range(profession_list))])
    ELSE NoOp(d)

(***************************************************************************)
(* DropFeatures                                                            *)
(***************************************************************************)
feature_to_drop == << "Customer ID", "Name", "Type of Employment", "Property ID" >>

DropFeatures_transform(d) ==
    IF HasColumns(d, feature_to_drop)
    THEN LET keep == SelectSeq(d.columns, LAMBDA c : c \notin Range(feature_to_drop))
         IN Returned([columns |-> keep,
                      rows |-> [i \in 1..Len(d.rows) |->
                                   [d.rows[i] EXCEPT !.cells =
                                       [c \in Range(keep) |-> d.rows[i].cells[c]]]]])
    ELSE NoOp(d)

(***************************************************************************)
(* MissingValueImputer                                                     *)
(***************************************************************************)
mode_imputed_ft ==
    << "Gender", "Income Stability", "Dependents", "Has Active Credit Card",
       "Property Location" >>

median_imputed_ft ==
    << "Income (USD)", "Current Loan Expenses (USD)", "Credit Score", "Property Age" >>

Count(s, v) == Cardinality({i \in 1..Len(s) : s[i] = v})

\* df[ft].mode()[0] over the non-empty s of present values: the most frequent
\* value, the smallest one when several are as frequent.
Mode(c, s) ==
    LET top == {v \in Range(s) : \A w \in Range(s) : Count(s, w) <= Count(s, v)}
    IN CHOOSE v \in top : \A w \in top : w = v \/ Less(c, v, w)

\* df[ft].median() over the present values s: missing when there is none, the
\* middle value, or the mean of the two middle values (which is exact here when
\* they have the same parity).
Median(s) ==
    LET sorted == SortInts(s)
        n == Len(s)
    IN IF n = 0 THEN NaN
       ELSE IF n % 2 = 1 THEN sorted[(n + 1) \div 2]
       ELSE (sorted[n \div 2] + sorted[(n \div 2) + 1]) \div 2

\* fillna(value, limit=1): only the first missing cell of each column is filled.
FillNa_limit_1(d, fill) ==
    [d EXCEPT !.rows =
        [i \in 1..Len(d.rows) |->
            [d.rows[i] EXCEPT !.cells =
                [c \in DOMAIN d.rows[i].cells |->
                    IF /\ c \in DOMAIN fill
                       /\ isna(c, d.rows[i].cells[c])
                       /\ \A j \in 1..(i - 1) : ~isna(c, d.rows[j].cells[c])
                    THEN fill[c] ELSE d.rows[i].cells[c]]]]]

\* df[ft].fillna(value) on every row.
FillNa(d, fill) ==
    [d EXCEPT !.rows =
        [i \in 1..Len(d.rows) |->
            [d.rows[i] EXCEPT !.cells =
                [c \in DOMAIN d.rows[i].cells |->
                    IF c \in DOMAIN fill /\ isna(c, d.rows[i].cells[c])
                    THEN fill[c] ELSE d.rows[i].cells[c]]]]]

\* The mode and the median taken before the rows without a target are dropped.
MissingValueImputer_transform_early_stats(d) ==
    IF HasColumns(d, mode_imputed_ft \o median_imputed_ft)
    THEN IF Target \notin Range(d.columns)
         THEN Raised(d)
         ELSE LET kept == [d EXCEPT !.rows =
                              SelectSeq(d.rows, LAMBDA r : ~isna(Target, r.cells[Target]))]
              IN IF \E ft \in Range(mode_imputed_ft) : Present(kept, ft) = <<>>
                 THEN Raised(d)
                 ELSE LET modes == [ft \in Range(mode_imputed_ft) |->
                                       Mode(ft, Present(d, ft))]
                          filled == FillNa(kept, modes)
                          medians == [ft \in Range(median_imputed_ft) |->
                                         Median(Present(d, ft))]
                      IN Returned(FillNa(filled, medians))
    ELSE NoOp(d)

MissingValueImputer_transform(d) ==
    IF HasColumns(d, mode_imputed_ft \o median_imputed_ft)
    THEN IF Target \notin Range(d.columns)
         THEN Raised(d)   \* dropna(subset=[target]): KeyError
         ELSE LET kept == [d EXCEPT !.rows =
                              SelectSeq(d.rows, LAMBDA r : ~isna(Target, r.cells[Target]))]
              IN IF \E ft \in Range(mode_imputed_ft) : Present(kept, ft) = <<>>
                 THEN Raised(d)   \* mode() is empty: mode()[0] raises
                 ELSE LET modes == [ft \in Range(mode_imputed_ft) |->
                                       Mode(ft, Present(kept, ft))]
                          filled == FillNa(kept, modes)
                          medians == [ft \in Range(median_imputed_ft) |->
                                         Median(Present(filled, ft))]
                      IN Returned(FillNa(filled, medians))
    ELSE NoOp(d)

(***************************************************************************)
(* ValueImputer                                                            *)
(***************************************************************************)
feat_with_999_val ==
    << "Co-Applicant", "Current Loan Expenses (USD)", "Loan Sanction Amount (USD)",
       "Property Price" >>

\* df[ft].replace(-999.000, 0, inplace=True, regex=True): -999.0 is no pattern,
\* so cells equal to it are replaced, in the frame itself.
ValueImputer_transform(d) ==
    IF HasColumns(d, feat_with_999_val)
    THEN Returned([d EXCEPT !.rows =
             [i \in 1..Len(d.rows) |->
                 [d.rows[i] EXCEPT !.cells =
                     [c \in DOMAIN d.rows[i].cells |->
                         IF c \in Range(feat_with_999_val) /\ d.rows[i].cells[c] = Sentinel
                         THEN 0 ELSE d.rows[i].cells[c]]]]])
    ELSE NoOp(d)

(***************************************************************************)
(* SkewnessHandler                                                         *)
(***************************************************************************)
col_with_skewness ==
    << "Income (USD)", "Loan Amount Request (USD)", "Current Loan Expenses (USD)",
       "Property Age" >>

\* The largest r in lo..hi with r^3 <= x, given lo^3 <= x < (hi + 1)^3.
RECURSIVE CubeRootIn(_, _, _)
CubeRootIn(x, lo, hi) ==
    IF lo = hi THEN lo
    ELSE LET mid == (lo + hi + 1) \div 2
         IN IF mid * mid * mid <= x THEN CubeRootIn(x, mid, hi)
            ELSE CubeRootIn(x, lo, mid - 1)

\* np.cbrt(v) in tenths, rounded towards zero, for |v| <= 10^6; odd, and
\* missing stays missing.
Cbrt(v) ==
    IF v = NaN THEN NaN
    ELSE IF v < 0 THEN 0 - CubeRootIn((0 - v) * 1000, 0, 1000)
    ELSE CubeRootIn(v * 1000, 0, 1000)

SkewnessHandler_transform(d) ==
    IF HasColumns(d, col_with_skewness)
    THEN Returned([d EXCEPT !.rows =
             [i \in 1..Len(d.rows) |->
                 [d.rows[i] EXCEPT !.cells =
                     [c \in DOMAIN d.rows[i].cells |->
                         IF c \in Range(col_with_skewness)
                         THEN Cbrt(d.rows[i].cells[c]) ELSE d.rows[i].cells[c]]]]])
    ELSE NoOp(d)

(***************************************************************************)
(* MinMaxWithFeatNames                                                     *)
(***************************************************************************)
min_max_scaler_ft ==
    << "Age", "Income (USD)", "Loan Amount Request (USD)",
       "Current Loan Expenses (USD)", "Credit Score", "Property Age",
       "Property Price" >>

\* MinMaxScaler on one cell of a column whose present values, sorted, are s:
\* (v - min) / (max - min) as <<num, den>>; a zero range scales by 1; a
\* missing value stays missing.
\* The minimum is not subtracted.
Scale_no_shift(s, v) ==
    IF v = NaN THEN <<0, 0>>
    ELSE LET lo == s[1]
             hi == s[Len(s)]
         IN <<v, IF hi = lo THEN 1 ELSE hi - lo>>

Scale(s, v) ==
    IF v = NaN THEN <<0, 0>>
    ELSE LET lo == s[1]
             hi == s[Len(s)]
         IN <<v - lo, IF hi = lo THEN 1 ELSE hi - lo>>

MinMaxWithFeatNames_transform(d) ==
    IF HasColumns(d, min_max_scaler_ft)
    THEN IF d.rows = <<>>
         THEN Raised(d)   \* MinMaxScaler.fit on 0 samples: ValueError
         ELSE LET sorted == [ft \in Range(min_max_scaler_ft) |->
                                SortInts(Present(d, ft))]
              IN Returned([d EXCEPT !.rows =
                     [i \in 1..Len(d.rows) |->
                         [d.rows[i] EXCEPT !.cells =
                             [c \in DOMAIN d.rows[i].cells |->
                                 IF c \in Range(min_max_scaler_ft)
                                 THEN Scale(sorted[c], d.rows[i].cells[c])
                                 ELSE d.rows[i].cells[c]]]]])
    ELSE NoOp(d)

(***************************************************************************)
(* OneHotWithFeatNames                                                     *)
(***************************************************************************)
one_hot_enc_ft ==
    << "Gender", "Profession", "Location", "Expense Type 1", "Expense Type 2",
       "Has Active Credit Card", "Property Location", "Income Stability" >>

\* OneHotEncoder.categories_ of column ft: the distinct values, sorted, a
\* missing value last.
\* OneHotEncoder(drop="first").
Categories_drop_first(d, ft) ==
    Tail(SelectSeq(CatOrder, LAMBDA v : \E i \in 1..Len(d.rows) : d.rows[i].cells[ft] = v))

Categories(d, ft) ==
    SelectSeq(CatOrder, LAMBDA v : \E i \in 1..Len(d.rows) : d.rows[i].cells[ft] = v)

\* get_feature_names_out: <column>_<category>, column by column.
FeatNames(d, fts) ==
    Flatten([k \in 1..Len(fts) |->
                LET cats == Categories(d, fts[k])
                IN [j \in 1..Len(cats) |-> fts[k] \o "_" \o cats[j]]])

\* The indicator columns that are 1 in a row: for each encoded column, the one
\* named after the row's value.
Hot(cells, fts) == {fts[k] \o "_" \o cells[fts[k]] : k \in 1..Len(fts)}

OneHotWithFeatNames_transform(d) ==
    IF HasColumns(d, one_hot_enc_ft)
    THEN IF d.rows = <<>>
         THEN Raised(d)   \* OneHotEncoder.fit on 0 samples: ValueError
         ELSE LET names == FeatNames(d, one_hot_enc_ft)
                  rest == SelectSeq(d.columns, LAMBDA c : c \notin Range(one_hot_enc_ft))
                  cols == Range(names) \cup Range(rest)
              IN Returned([columns |-> names \o rest,
                           rows |-> [i \in 1..Len(d.rows) |->
                               LET hot == Hot(d.rows[i].cells, one_hot_enc_ft)
                               IN [index |-> d.rows[i].index,
                                   cells |-> [c \in cols |->
                                       IF c \in Range(rest) THEN d.rows[i].cells[c]
                                       ELSE IF c \in hot THEN 1 ELSE 0]]]])
    ELSE NoOp(d)

(***************************************************************************)
(* full_pipeline                                                           *)
(***************************************************************************)
PipelineSteps ==
    << "drop features", "outlier remover", "drop uncommon profession",
       "missing value imputer", "-999 value imputer", "skewness handler",
       "min max scaler", "one hot encoder" >>

\* The transform of a named step.
Transform(name, d) ==
    CASE name = "drop features" -> DropFeatures_transform(d)
      [] name = "outlier remover" -> OutlierImputer_transform(d)
      [] name = "drop uncommon profession" -> DropUncommonProfession_transform(d)
      [] name = "missing value imputer" -> MissingValueImputer_transform(d)
      [] name = "-999 value imputer" -> ValueImputer_transform(d)
      [] name = "skewness handler" -> SkewnessHandler_transform(d)
      [] name = "min max scaler" -> MinMaxWithFeatNames_transform(d)
      [] name = "one hot encoder" -> OneHotWithFeatNames_transform(d)

\* pipeline.fit_transform from step k on: each step is given the frame the
\* step before it returned; an exception ends the run.
RECURSIVE RunFrom(_, _)
RunFrom(k, d) ==
    IF k > Len(PipelineSteps) THEN Returned(d)
    ELSE LET r == Transform(PipelineSteps[k], d)
         IN IF r.raised THEN r ELSE RunFrom(k + 1, r.df)

full_pipeline(d) == RunFrom(1, d)

(***************************************************************************)
(* Input datasets.                                                         *)
(***************************************************************************)
\* pd.read_csv / reset_index(drop=True): rows labelled 0, 1, 2, ...
Frame(cols, cells) ==
    [columns |-> cols,
     rows |-> [i \in 1..Len(cells) |-> [index |-> i - 1, cells |-> cells[i]]]]

\* A record of the training schema; the other rows vary some of its cells.
BaseCells ==
    [c \in Range(TrainColumns) |->
        CASE c = "Customer ID" -> "C-1"
          [] c = "Name" -> "A"
          [] c = "Gender" -> "M"
          [] c = "Age" -> 40
          [] c = "Income (USD)" -> 2500
          [] c = "Income Stability" -> "Low"
          [] c = "Profession" -> "Working"
          [] c = "Type of Employment" -> "nan"
          [] c = "Location" -> "Urban"
          [] c = "Loan Amount Request (USD)" -> 8000
          [] c = "Current Loan Expenses (USD)" -> 200
          [] c = "Expense Type 1" -> "N"
          [] c = "Expense Type 2" -> "N"
          [] c = "Dependents" -> 0
          [] c = "Credit Score" -> 740
          [] c = "No. of Defaults" -> 0
          [] c = "Has Active Credit Card" -> "Active"
          [] c = "Property ID" -> 1
          [] c = "Property Age" -> 1461
          [] c = "Property Type" -> 1
          [] c = "Property Location" -> "Urban"
          [] c = "Co-Applicant" -> 0
          [] c = "Property Price" -> 10000
          [] c = "Loan Sanction Amount (USD)" -> 5000]

With(cells, changes) == [c \in DOMAIN cells |-> IF c \in DOMAIN changes THEN changes[c] ELSE cells[c]]

\* Rows that differ in the columns OutlierImputer reads.
OutlierRows ==
    { With(BaseCells, "Income (USD)" :> 0),
      With(BaseCells, "Income (USD)" :> 2),
      With(BaseCells, "Income (USD)" :> 100),
      With(BaseCells, "Income (USD)" :> NaN @@ "Property Price" :> 0) }

\* Rows with missing cells in the columns MissingValueImputer reads.
MissingRows ==
    { BaseCells,
      With(BaseCells, "Gender" :> "F" @@ "Income (USD)" :> 2700),
      With(BaseCells, "Gender" :> "nan" @@ "Income (USD)" :> NaN @@ "Dependents" :> NaN),
      With(BaseCells, "Gender" :> "F" @@ "Loan Sanction Amount (USD)" :> NaN),
      With(BaseCells, "Income (USD)" :> NaN @@ "Credit Score" :> 900) }

\* Rows holding the -999 sentinel.
SentinelRows ==
    { BaseCells,
      With(BaseCells, "Current Loan Expenses (USD)" :> Sentinel @@ "Income (USD)" :> Sentinel),
      With(BaseCells, "Loan Sanction Amount (USD)" :> Sentinel @@ "Property Price" :> Sentinel
                      @@ "Co-Applicant" :> Sentinel) }

\* Rows that differ in the categorical columns.
CategoryRows ==
    { BaseCells,
      With(BaseCells, "Profession" :> "Student" @@ "Gender" :> "F"),
      With(BaseCells, "Profession" :> "Pensioner" @@ "Location" :> "Rural"
                      @@ "Has Active Credit Card" :> "Unpossessed"),
      With(BaseCells, "Gender" :> "F" @@ "Location" :> "nan" @@ "Expense Type 1" :> "Y") }

\* Rows that differ in the columns MinMaxWithFeatNames scales.
ScaleRows ==
    { With(BaseCells, "Age" :> 18 @@ "Credit Score" :> 580),
      BaseCells,
      With(BaseCells, "Age" :> 65 @@ "Property Price" :> 0),
      With(BaseCells, "Credit Score" :> NaN @@ "Income (USD)" :> 0) }

\* d without column c.
Without(d, c) ==
    LET keep == SelectSeq(d.columns, LAMBDA x : x # c)
    IN [columns |-> keep,
        rows |-> [i \in 1..Len(d.rows) |->
                     [d.rows[i] EXCEPT !.cells = [x \in Range(keep) |-> d.rows[i].cells[x]]]]]

\* Frames that lack one column of the training schema.
SchemaFrames ==
    { Without(Frame(TrainColumns, cells), c) :
          cells \in {<<BaseCells>>,
                     <<BaseCells, With(BaseCells, "Gender" :> "F" @@ "Age" :> 18)>>},
          c \in Range(TrainColumns) }

\* The frames the transforms and full_pipeline are run on.
Frames ==
    {Frame(TrainColumns, cells) :
        cells \in SeqsUpTo(OutlierRows, MaxOutlierRows)
                  \cup SeqsUpTo(MissingRows, MaxRows)
                  \cup SeqsUpTo(SentinelRows, MaxRows)
                  \cup SeqsUpTo(CategoryRows, MaxRows)
                  \cup SeqsUpTo(ScaleRows, MaxRows)}
    \cup SchemaFrames

Empty == [columns |-> <<>>, rows |-> <<>>]

NoProfile == [input_gender |-> "Male", input_income |-> 0, input_professions |-> "Working"]

(***************************************************************************)
(* One transform on one frame, and the same transform once more on what    *)
(* it returned.                                                            *)
(***************************************************************************)
Imputers ==
    { "outlier remover", "drop uncommon profession", "missing value imputer",
      "-999 value imputer", "drop features" }

InitTransform ==
    /\ df \in Frames
    /\ pc = "init"
    /\ prev = Empty
    /\ last = "none"
    /\ steps = <<>>
    /\ printed = <<>>
    /\ train_copy = Empty
    /\ profile = NoProfile
    /\ prep = Empty
    /\ cache = "empty"
    /\ lottie = "unset"
    /\ predict_bt = FALSE
    /\ fetch = "none"
    /\ shown = {}

CanApply(name) ==
    \/ pc = "init"
    \/ pc = "once" /\ last = name /\ name \in Imputers

\* The harness's record of a call of transform(df) that handed back r.
Commit(name, r) ==
    /\ prev' = df
    /\ last' = name
    /\ df' = r.df
    /\ printed' = IF r.printed THEN Append(printed, name) ELSE printed
    /\ steps' = Append(steps, name)
    /\ pc' = IF r.raised THEN "raised"
             ELSE IF pc = "init" THEN "once" ELSE "twice"
    /\ UNCHANGED <<train_copy, profile, prep, cache, lottie, predict_bt, fetch, shown>>

DropFeaturesCall ==
    /\ CanApply("drop features")
    /\ Commit("drop features", DropFeatures_transform(df))

OutlierCall ==
    /\ CanApply("outlier remover")
    /\ Commit("outlier remover", OutlierImputer_transform(df))

DropUncommonProfessionCall ==
    /\ CanApply("drop uncommon profession")
    /\ Commit("drop uncommon profession", DropUncommonProfession_transform(df))

MissingValueCall ==
    /\ CanApply("missing value imputer")
    /\ Commit("missing value imputer", MissingValueImputer_transform(df))

ValueImputerCall ==
    /\ CanApply("-999 value imputer")
    /\ Commit("-999 value imputer", ValueImputer_transform(df))

SkewnessCall ==
    /\ CanApply("skewness handler")
    /\ Commit("skewness handler", SkewnessHandler_transform(df))

MinMaxCall ==
    /\ CanApply("min max scaler")
    /\ Commit("min max scaler", MinMaxWithFeatNames_transform(df))

OneHotCall ==
    /\ CanApply("one hot encoder")
    /\ Commit("one hot encoder", OneHotWithFeatNames_transform(df))

NextTransform ==
    \/ DropFeaturesCall
    \/ OutlierCall
    \/ DropUncommonProfessionCall
    \/ MissingValueCall
    \/ ValueImputerCall
    \/ SkewnessCall
    \/ MinMaxCall
    \/ OneHotCall

SpecTransform == InitTransform /\ [][NextTransform]_vars

(***************************************************************************)
(* Properties of a single transform (SpecTransform).                       *)
(***************************************************************************)
Called(name) == pc # "init" /\ last = name

ReturnedFrom(name) == pc \in {"once", "twice"} /\ last = name

Indexes(d) == [i \in 1..Len(d.rows) |-> d.rows[i].index]

\* The columns a transform operates on.
Operated(name) ==
    CASE name = "drop features" -> feature_to_drop
      [] name = "outlier remover" -> feat_with_outliers
      [] name = "drop uncommon profession" -> <<"Profession">>
      [] name = "missing value imputer" ->
             mode_imputed_ft \o median_imputed_ft \o <<Target>>
      [] name = "-999 value imputer" -> feat_with_999_val
      [] name = "skewness handler" -> col_with_skewness
      [] name = "min max scaler" -> min_max_scaler_ft
      [] name = "one hot encoder" -> one_hot_enc_ft

\* C4: a transform called on a frame that lacks one or more of the columns it
\* operates on (the target column of MissingValueImputer included) does not
\* raise, returns the frame unchanged and prints its diagnostic.
C4_SchemaMismatchIsNoOp ==
    (pc # "init" /\ ~HasColumns(prev, Operated(last)))
        => /\ pc # "raised"
           /\ df = prev
           /\ printed # <<>> /\ printed[Len(printed)] = last

\* A row has a value outside [Q1 - 1.5 IQR, Q3 + 1.5 IQR] of its column, the
\* quartiles being those of the column's present values, given sorted.
HasOutlier(sorted, r) ==
    \E ft \in Range(feat_with_outliers) : OutOfBounds(sorted[ft], ft, r.cells[ft])

ImputedColumns == mode_imputed_ft \o median_imputed_ft

\* The rows of d whose target is present.
WithTarget(d) == SelectSeq(d.rows, LAMBDA r : ~isna(Target, r.cells[Target]))

NoneMissing(d, fts) ==
    \A i \in 1..Len(d.rows) : \A c \in Range(fts) : ~isna(c, d.rows[i].cells[c])

\* Every imputed column has a value in some row whose target is present.
EveryColumnHasAValue(d) ==
    \A c \in Range(ImputedColumns) :
        \E i \in 1..Len(d.rows) :
            ~isna(Target, d.rows[i].cells[Target]) /\ ~isna(c, d.rows[i].cells[c])

\* v is a most frequent value of column c among the rows.
MostFrequent(rows, c, v) ==
    LET n(w) == Cardinality({i \in 1..Len(rows) : rows[i].cells[c] = w})
    IN /\ ~isna(c, v)
       /\ n(v) > 0
       /\ \A i \in 1..Len(rows) :
              ~isna(c, rows[i].cells[c]) => n(rows[i].cells[c]) <= n(v)

\* v is a median of column c among the rows: at most half of the present
\* values are below it and at most half above.
IsMedian(rows, c, v) ==
    LET present == {i \in 1..Len(rows) : ~isna(c, rows[i].cells[c])}
    IN /\ 2 * Cardinality({i \in present : rows[i].cells[c] < v}) <= Cardinality(present)
       /\ 2 * Cardinality({i \in present : rows[i].cells[c] > v}) <= Cardinality(present)

\* The effect C7 describes, from the frame before to the frame after.
Imputed(before, after) ==
    LET kept == WithTarget(before)
    IN /\ after.columns = before.columns
       /\ Indexes(after) = [i \in 1..Len(kept) |-> kept[i].index]
       /\ \A i \in 1..Len(kept) : \A c \in Range(before.columns) :
              LET old == kept[i].cells[c]
                  new == after.rows[i].cells[c]
              IN IF c \in Range(ImputedColumns) /\ isna(c, old)
                 THEN IF c \in Range(mode_imputed_ft)
                      THEN MostFrequent(kept, c, new)
                      ELSE IsMedian(kept, c, new)
                 ELSE new = old

\* C7 as stated: after MissingValueImputer.transform on a frame with its
\* declared columns, no row has a missing target and none of the 9 imputed
\* columns holds a missing value.
C7_NoMissingAfterImpute ==
    (ReturnedFrom("missing value imputer") /\ HasColumns(prev, ImputedColumns \o <<Target>>))
        => /\ NoneMissing(df, <<Target>>)
           /\ NoneMissing(df, ImputedColumns)

\* C7 amended: when each of the 9 columns has a value in some row whose target
\* is present, the call returns, the rows with a missing target are gone,
\* each missing cell of a mode column holds a most frequent value and each
\* missing cell of a median column a median of its column among the rows
\* kept, no target and none of the 9 columns is missing, and every other cell
\* is unchanged.
C7_ImputeWhenEveryColumnHasAValue ==
    (/\ Called("missing value imputer")
     /\ HasColumns(prev, ImputedColumns \o <<Target>>)
     /\ EveryColumnHasAValue(prev))
        => /\ pc # "raised"
           /\ Imputed(prev, df)
           /\ NoneMissing(df, <<Target>>)
           /\ NoneMissing(df, ImputedColumns)

\* C7's case: a call that dropped a row without target and filled a missing
\* cell of a mode column and one of a median column.
C7_Witness ==
    /\ ReturnedFrom("missing value imputer")
    /\ HasColumns(prev, ImputedColumns \o <<Target>>)
    /\ EveryColumnHasAValue(prev)
    /\ Len(df.rows) < Len(prev.rows)
    /\ \E i \in 1..Len(prev.rows) :
           /\ ~isna(Target, prev.rows[i].cells[Target])
           /\ isna("Gender", prev.rows[i].cells["Gender"])
           /\ isna("Income (USD)", prev.rows[i].cells["Income (USD)"])

\* C8 as stated: a second call of any of the five imputers on what its first
\* call returned changes nothing.
C8_EveryImputerIdempotent ==
    (Len(steps) = 2 /\ last \in Imputers) => (pc = "twice" /\ df = prev)

\* C8 amended: a second call of DropUncommonProfession, MissingValueImputer,
\* ValueImputer or DropFeatures on what its first call returned returns it
\* unchanged.
C8_ImputersButOutlierIdempotent ==
    (Len(steps) = 2 /\ last \in Imputers \ {"outlier remover"})
        => (pc = "twice" /\ df = prev)

\* C8's case: a second call after a first call that changed the frame.
C8_Witness ==
    /\ pc = "twice"
    /\ last = "missing value imputer"
    /\ HasColumns(df, ImputedColumns)
    /\ df = prev
    /\ \E i \in 1..Len(df.rows) :
           df.rows[i].cells["Gender"] = "F" /\ df.rows[i].cells["Income (USD)"] = 2600

\* The distinct values of column ft in d, a missing value being one of them.
Distinct(d, ft) == {d.rows[i].cells[ft] : i \in 1..Len(d.rows)}

\* The columns of d named <ft>_<category>.
Indicators(d, ft) ==
    {c \in Range(d.columns) : \E v \in Range(CatOrder) : c = ft \o "_" \o v}

\* C9: OneHotWithFeatNames.transform on a frame with its 8 columns replaces
\* each of them by as many indicator columns as the column has distinct
\* categories in the frame; every indicator is 0 or 1, each row has exactly one
\* 1 among the indicators of each encoded column, and the other columns, the
\* rows' order and their index are kept.
C9_OneHotIndicators ==
    (ReturnedFrom("one hot encoder") /\ HasColumns(prev, one_hot_enc_ft))
        => /\ \A ft \in Range(one_hot_enc_ft) :
                  LET group == Indicators(df, ft)
                  IN /\ ft \notin Range(df.columns)
                     /\ Cardinality(group) = Cardinality(Distinct(prev, ft))
                     /\ \A i \in 1..Len(df.rows) :
                            /\ \A c \in group : df.rows[i].cells[c] \in {0, 1}
                            /\ Cardinality({c \in group : df.rows[i].cells[c] = 1}) = 1
           /\ Indexes(df) = Indexes(prev)
           /\ SelectSeq(df.columns, LAMBDA c : c \in Range(prev.columns))
                  = SelectSeq(prev.columns, LAMBDA c : c \notin Range(one_hot_enc_ft))
           /\ \A i \in 1..Len(prev.rows) :
                  \A c \in Range(prev.columns) \ Range(one_hot_enc_ft) :
                      df.rows[i].cells[c] = prev.rows[i].cells[c]
           /\ Len(df.columns) = Cardinality(Range(df.columns))

\* C9's case: a call on rows that differ in an encoded column.
C9_Witness ==
    /\ ReturnedFrom("one hot encoder")
    /\ HasColumns(prev, one_hot_enc_ft)
    /\ Cardinality(Distinct(prev, "Profession")) = 3
    /\ Cardinality(Indicators(df, "Profession")) = 3

\* The least and the greatest present value of column ft of d.
Least(d, ft) ==
    CHOOSE m \in Range(Present(d, ft)) : \A w \in Range(Present(d, ft)) : m <= w
Greatest(d, ft) ==
    CHOOSE m \in Range(Present(d, ft)) : \A w \in Range(Present(d, ft)) : w <= m

\* C10: MinMaxWithFeatNames.transform maps every value of a designated column
\* whose maximum exceeds its minimum to (x - min) / (max - min), min and max
\* being those of the column in the input of the call: the result is in
\* [0, 1], the minimum maps to 0 and the maximum to 1; columns, row order and
\* index are kept.
C10_MinMaxInUnitInterval ==
    (ReturnedFrom("min max scaler") /\ HasColumns(prev, min_max_scaler_ft))
        => /\ df.columns = prev.columns
           /\ Indexes(df) = Indexes(prev)
           /\ \A ft \in Range(min_max_scaler_ft) :
                  Present(prev, ft) # <<>>
                      => LET lo == Least(prev, ft)
                             hi == Greatest(prev, ft)
                         IN hi > lo
                                => \A i \in 1..Len(prev.rows) :
                                       LET x == prev.rows[i].cells[ft]
                                           y == df.rows[i].cells[ft]
                                       IN ~isna(ft, x)
                                              => /\ y[1] = x - lo
                                                 /\ y[2] = hi - lo
                                                 /\ 0 <= y[1] /\ y[1] <= y[2]
                                                 /\ (x = lo => y[1] = 0)
                                                 /\ (x = hi => y[1] = y[2])

\* C10's case: a call that scaled a value strictly between its column's
\* minimum and maximum.
C10_Witness ==
    /\ ReturnedFrom("min max scaler")
    /\ HasColumns(prev, min_max_scaler_ft)
    /\ \E i \in 1..Len(df.rows) :
           LET y == df.rows[i].cells["Age"]
           IN 0 < y[1] /\ y[1] < y[2]

(***************************************************************************)
(* full_pipeline step by step (SpecPipeline).                              *)
(***************************************************************************)
InitPipeline ==
    /\ df \in Frames
    /\ pc = "pipeline"
    /\ prev = Empty
    /\ last = "none"
    /\ steps = <<>>
    /\ printed = <<>>
    /\ train_copy = Empty
    /\ profile = NoProfile
    /\ prep = Empty
    /\ cache = "empty"
    /\ lottie = "unset"
    /\ predict_bt = FALSE
    /\ fetch = "none"
    /\ shown = {}

\* The step fit_transform runs next: the steps run in the order of the list.
NextStep == PipelineSteps[Len(steps) + 1]

\* fit_transform of one step that handed back r: the next step gets r.df, an
\* exception leaves full_pipeline.
RunStep(name, r) ==
    /\ prev' = df
    /\ last' = name
    /\ df' = r.df
    /\ printed' = IF r.printed THEN Append(printed, name) ELSE printed
    /\ steps' = Append(steps, name)
    /\ pc' = IF r.raised THEN "raised"
             ELSE IF Len(steps) + 1 = Len(PipelineSteps) THEN "piped" ELSE "pipeline"
    /\ UNCHANGED <<train_copy, profile, prep, cache, lottie, predict_bt, fetch, shown>>

DropFeaturesStep ==
    /\ pc = "pipeline"
    /\ NextStep = "drop features"
    /\ RunStep("drop features", DropFeatures_transform(df))

OutlierStep ==
    /\ pc = "pipeline"
    /\ NextStep = "outlier remover"
    /\ RunStep("outlier remover", OutlierImputer_transform(df))

DropUncommonProfessionStep ==
    /\ pc = "pipeline"
    /\ NextStep = "drop uncommon profession"
    /\ RunStep("drop uncommon profession", DropUncommonProfession_transform(df))

MissingValueStep ==
    /\ pc = "pipeline"
    /\ NextStep = "missing value imputer"
    /\ RunStep("missing value imputer", MissingValueImputer_transform(df))

ValueImputerStep ==
    /\ pc = "pipeline"
    /\ NextStep = "-999 value imputer"
    /\ RunStep("-999 value imputer", ValueImputer_transform(df))

SkewnessStep ==
    /\ pc = "pipeline"
    /\ NextStep = "skewness handler"
    /\ RunStep("skewness handler", SkewnessHandler_transform(df))

MinMaxStep ==
    /\ pc = "pipeline"
    /\ NextStep = "min max scaler"
    /\ RunStep("min max scaler", MinMaxWithFeatNames_transform(df))

OneHotStep ==
    /\ pc = "pipeline"
    /\ NextStep = "one hot encoder"
    /\ RunStep("one hot encoder", OneHotWithFeatNames_transform(df))

NextPipeline ==
    \/ DropFeaturesStep
    \/ OutlierStep
    \/ DropUncommonProfessionStep
    \/ MissingValueStep
    \/ ValueImputerStep
    \/ SkewnessStep
    \/ MinMaxStep
    \/ OneHotStep

SpecPipeline == InitPipeline /\ [][NextPipeline]_vars

\* C1: full_pipeline applies its eight transforms to every input dataset,
\* each exactly once and in the fixed order: when a run of it is over, the
\* steps applied are the eight of the list, in its order.
C1_AllEightStepsInOrder ==
    pc \in {"piped", "raised"} => steps = PipelineSteps

(***************************************************************************)
(* The script (Spec): one run per interaction.                             *)
(***************************************************************************)
\* The widget values the model lets the user choose; the others keep one value
\* of their range.
Profiles ==
    { [input_gender |-> g, input_income |-> inc, input_professions |-> prof] :
          g \in {"Male", "Female"}, inc \in {0, 2500},
          prof \in {"Working", "Pensioner"} }

\* input_gender[:1]
FirstLetter(choice) == IF choice = "Male" THEN "M" ELSE "F"

\* profile_to_predict, under the columns of train_copy.  The sliders left
\* fixed: age 40, loan expenses 200, dependents 0, credit score 740, property
\* age 4 (* 365.25 = 1461), property price 10000, amount requested 8000.
ProfileRow(p) ==
    [c \in Range(TrainColumns) |->
        CASE c = "Customer ID" -> ""
          [] c = "Name" -> ""
          [] c = "Gender" -> FirstLetter(p.input_gender)
          [] c = "Age" -> 40
          [] c = "Income (USD)" -> p.input_income
          [] c = "Income Stability" -> "Low"
          [] c = "Profession" -> p.input_professions
          [] c = "Type of Employment" -> ""
          [] c = "Location" -> "Urban"
          [] c = "Loan Amount Request (USD)" -> 8000
          [] c = "Current Loan Expenses (USD)" -> 200
          [] c = "Expense Type 1" -> "N"
          [] c = "Expense Type 2" -> "N"
          [] c = "Dependents" -> 0
          [] c = "Credit Score" -> 740
          [] c = "No. of Defaults" -> 0
          [] c = "Has Active Credit Card" -> "Active"
          [] c = "Property ID" -> 0
          [] c = "Property Age" -> (4 * 36525) \div 100
          [] c = "Property Type" -> 1
          [] c = "Property Location" -> "Urban"
          [] c = "Co-Applicant" -> 0
          [] c = "Property Price" -> 10000
          [] c = "Loan Sanction Amount (USD)" -> 0]

\* Historical records.
TrainRows ==
    { BaseCells,
      With(BaseCells, "Income (USD)" :> 2700 @@ "Gender" :> "F"),
      With(BaseCells, "Profession" :> "Student"),
      With(BaseCells, "Profession" :> "Pensioner" @@ "Loan Sanction Amount (USD)" :> NaN),
      With(BaseCells, "Gender" :> "nan" @@ "Income (USD)" :> NaN) }

TrainFrames ==
    {Frame(TrainColumns, cells) : cells \in SeqsUpTo(TrainRows, MaxTrain) \ {<<>>}}

Init ==
    /\ train_copy \in TrainFrames
    /\ profile \in Profiles
    /\ predict_bt = FALSE
    /\ pc = "form"
    /\ df = Empty
    /\ prev = Empty
    /\ last = "none"
    /\ steps = <<>>
    /\ printed = <<>>
    /\ prep = Empty
    /\ cache = "empty"
    /\ lottie = "unset"
    /\ fetch = "none"
    /\ shown = {}

\* The widgets and the Predict button are put on the page.
RenderForm ==
    /\ pc = "form"
    /\ shown' = {"form"}
    /\ pc' = "concat"
    /\ UNCHANGED <<train_copy, profile, df, prev, last, steps, printed, prep, cache,
                   lottie, predict_bt, fetch>>

\* pd.concat([train_copy, profile_to_predict_df], ignore_index=True)
AppendProfile ==
    /\ pc = "concat"
    /\ df' = [columns |-> train_copy.columns,
              rows |-> Append(train_copy.rows,
                              [index |-> Len(train_copy.rows),
                               cells |-> ProfileRow(profile)])]
    /\ pc' = "pipeline"
    /\ UNCHANGED <<train_copy, profile, prev, last, steps, printed, prep, cache,
                   lottie, predict_bt, fetch, shown>>

\* .tail(1).drop(columns=[target])
TailDrop ==
    /\ pc = "piped"
    /\ IF Target \in Range(df.columns)
       THEN /\ prep' = Without([df EXCEPT !.rows =
                                   IF df.rows = <<>> THEN <<>>
                                   ELSE <<df.rows[Len(df.rows)]>>], Target)
            /\ pc' = "lottie"
       ELSE /\ prep' = prep
            /\ pc' = "raised"
    /\ UNCHANGED <<train_copy, profile, df, prev, last, steps, printed, cache,
                   lottie, predict_bt, fetch, shown>>

\* load_lottieurl, answered by st.cache_data.
LoadLottieCached ==
    /\ pc = "lottie"
    /\ cache # "empty"
    /\ lottie' = cache
    /\ pc' = "button"
    /\ UNCHANGED <<train_copy, profile, df, prev, last, steps, printed, prep, cache,
                   predict_bt, fetch, shown>>

\* load_lottieurl: requests.get answers 200, answers another status, or
\* raises; a returned value is cached, an exception leaves the script.
LoadLottieFetch ==
    /\ pc = "lottie"
    /\ cache = "empty"
    /\ \/ /\ fetch' = "ok"
          /\ lottie' = "json"
          /\ cache' = "json"
          /\ pc' = "button"
       \/ /\ fetch' = "non200"
          /\ lottie' = "None"
          /\ cache' = "None"
          /\ pc' = "button"
       \/ /\ fetch' = "failed"
          /\ pc' = "raised"
          /\ UNCHANGED <<lottie, cache>>
    /\ UNCHANGED <<train_copy, profile, df, prev, last, steps, printed, prep,
                   predict_bt, shown>>

\* if predict_bt: not taken.
NoPrediction ==
    /\ pc = "button"
    /\ ~predict_bt
    /\ pc' = "end"
    /\ UNCHANGED <<train_copy, profile, df, prev, last, steps, printed, prep, cache,
                   lottie, predict_bt, fetch, shown>>

\* if predict_bt: the spinner (animated when there is an animation),
\* make_prediction and st.info.
Predict ==
    /\ pc = "button"
    /\ predict_bt
    /\ shown' = shown \cup {"prediction"}
                      \cup (IF lottie = "json" THEN {"animation"} ELSE {})
    /\ pc' = "end"
    /\ UNCHANGED <<train_copy, profile, df, prev, last, steps, printed, prep, cache,
                   lottie, predict_bt, fetch>>

\* The user clicks Predict: the script runs again with predict_bt True; the
\* cache outlives the run.
ClickPredict ==
    /\ pc \in {"end", "raised"}
    /\ ~predict_bt
    /\ predict_bt' = TRUE
    /\ pc' = "form"
    /\ df' = Empty
    /\ prev' = Empty
    /\ last' = "none"
    /\ steps' = <<>>
    /\ printed' = <<>>
    /\ prep' = Empty
    /\ lottie' = "unset"
    /\ fetch' = "none"
    /\ shown' = {}
    /\ UNCHANGED <<train_copy, profile, cache>>

Next ==
    \/ RenderForm
    \/ AppendProfile
    \/ DropFeaturesStep
    \/ OutlierStep
    \/ DropUncommonProfessionStep
    \/ MissingValueStep
    \/ ValueImputerStep
    \/ SkewnessStep
    \/ MinMaxStep
    \/ OneHotStep
    \/ TailDrop
    \/ LoadLottieCached
    \/ LoadLottieFetch
    \/ NoPrediction
    \/ Predict
    \/ ClickPredict

Spec == Init /\ [][Next]_vars

\* C2: the row handed to the model is the transformed query record: the row
\* appended last is still there, and last, when the pipeline has run.
C2_QueryRowIsHandedToModel ==
    pc = "lottie"
        => /\ Len(prep.rows) = 1
           /\ prep.rows[1].index = Len(train_copy.rows)

\* C3: the columns of the feature vector made from the query-appended frame
\* are, in order, those the pipeline makes from the historical frame alone.
C3_SameColumnsAsTrainingAlone ==
    (pc = "lottie" /\ ~full_pipeline(train_copy).raised)
        => prep.columns
               = SelectSeq(full_pipeline(train_copy).df.columns, LAMBDA c : c # Target)

\* C5: in a run started by a click on Predict in which the animation fetch
\* fails (another status than 200, or a failed request), the form is on the
\* page and the prediction is displayed, without the animation.
C5_FetchFailureDoesNotBlockPrediction ==
    (pc \in {"end", "raised"} /\ predict_bt /\ fetch \in {"non200", "failed"})
        => /\ "form" \in shown
           /\ "prediction" \in shown
           /\ "animation" \notin shown

====
